---- MODULE Spec2Model ----
(***************************************************************************)
(* Model of the message encryption and signature module                   *)
(* (message_encryption.h): createEncryptedMessage, createDecryptedMessage, *)
(* signMessage, verifySignature, matchRSAKeys and generateKeysPair, and of *)
(* the makebet RPC (rpc/lottery.cpp).                                      *)
(*                                                                         *)
(* Bytes are integers 0..255 and buffers are sequences of bytes.  The      *)
(* OpenSSL primitives are modelled by small concrete ciphers that keep     *)
(* the lengths, the padding rules and the failure conditions of the real   *)
(* ones (PKCS#7 padding for AES-CBC, the OAEP block layout for RSA): a     *)
(* block decrypts only under the key it was made for, and a ciphertext     *)
(* whose padding is wrong is rejected.                                     *)
(***************************************************************************)
EXTENDS Integers, Sequences, FiniteSets, TLC

VARIABLES op, args, out, held, mem, changeAddress, wallet, derived

vars == <<op, args, out, held, mem, changeAddress, wallet, derived>>

\* the state of the lottery RPC: the cached change address, the wallet
\* GetWallets()[0] gives, and the addresses derived so far
lottery == <<changeAddress, wallet, derived>>

-----------------------------------------------------------------------------
(* Program constants *)

ENCR_MARKER_SIZE == 8
RSA_SIGNATURE_LENGTH == 256
\* "MESSAGE:"
ENCR_MARKER == <<77, 69, 83, 83, 65, 71, 69, 58>>
\* "MSG"
MSG_RECOGNIZE_TAG == <<77, 83, 71>>
AES_256_KEY_LENGTH == 256
AES_256_KEY_LENGTH_BYTES == AES_256_KEY_LENGTH \div 8
AES_256_IV_LENGTH_BYTES == 16
AES_BLOCK_SIZE == 16
\* RSA_PKCS1_OAEP_PADDING: 0x00 || seed (hLen) || lHash (hLen) || PS || 0x01 || M
OAEP_HLEN == 20
OAEP_LHASH == 218
\* bytes of a SHA-256 digest
SHA256_DIGEST_LENGTH == 32
\* bits of the keys generateKeysPair makes
KEY_BITS == 2048

-----------------------------------------------------------------------------
(* Bounds of the model *)

\* plaintexts of 0..MaxPlainLen bytes
MaxPlainLen == 16
\* messages to sign are numbered 1..MaxMsg
MaxMsg == 2

\* most addresses the wallets hand out as change addresses
MaxDerived == 2

-----------------------------------------------------------------------------
(* Byte helpers *)

Byte(x) == ((x % 256) + 256) % 256

Min(S) == CHOOSE x \in S : \A y \in S : x <= y

Rep(k, b) == [i \in 1..k |-> b]

\* the first k elements of s (all of s when it is shorter)
Take(s, k) == SubSeq(s, 1, IF k < Len(s) THEN k ELSE Len(s))

\* s without its first k elements
Drop(s, k) == SubSeq(s, k + 1, Len(s))

\* s with the byte at position p changed
Flip(s, p) == [i \in 1..Len(s) |-> IF i = p THEN Byte(s[i] + 1) ELSE s[i]]

\* the elements of a sequence
Range(s) == {s[i] : i \in 1..Len(s)}

-----------------------------------------------------------------------------
(* Keys.  A key text is the PEM string handed to the module; parsing gives *)
(* an RSA object or NULL.                                                  *)

KeyPairs ==
    { [n |-> 1, bits |-> KEY_BITS],
      [n |-> 2, bits |-> KEY_BITS],
      [n |-> 3, bits |-> KEY_BITS \div 2] }

PubPem(k) == [hdr |-> "PUBLIC KEY", n |-> k.n, bits |-> k.bits]
PrivPem(k) == [hdr |-> "RSA PRIVATE KEY", n |-> k.n, bits |-> k.bits]
JunkPem == [hdr |-> "", n |-> 0, bits |-> 0]

KeyA == CHOOSE k \in KeyPairs : k.n = 1

PubTexts == {PubPem(k) : k \in KeyPairs} \cup {JunkPem, PrivPem(KeyA)}
PrivTexts == {PrivPem(k) : k \in KeyPairs} \cup {JunkPem, PubPem(KeyA)}

NULL == [valid |-> FALSE, n |-> 0, bits |-> 0, priv |-> FALSE]

PEM_read_bio_RSA_PUBKEY(text) ==
    IF text.hdr = "PUBLIC KEY"
    THEN [valid |-> TRUE, n |-> text.n, bits |-> text.bits, priv |-> FALSE]
    ELSE NULL

PEM_read_bio_RSAPrivateKey(text) ==
    IF text.hdr = "RSA PRIVATE KEY"
    THEN [valid |-> TRUE, n |-> text.n, bits |-> text.bits, priv |-> TRUE]
    ELSE NULL

RSA_size(rsa) == rsa.bits \div 8

-----------------------------------------------------------------------------
(* RSA with OAEP padding.  The result is [len, data]: len = -1 on failure. *)

RsaFail == [len |-> -1, data |-> <<>>]

\* the OAEP block of msg for a modulus of k bytes
OaepEncode(msg, k) ==
    <<0>> \o Rep(OAEP_HLEN, 0) \o Rep(OAEP_HLEN, OAEP_LHASH)
          \o Rep(k - Len(msg) - 2 * OAEP_HLEN - 2, 0) \o <<1>> \o msg

RSA_public_encrypt(flen, from, rsa) ==
    LET k == RSA_size(rsa) IN
    IF flen > k - 2 * OAEP_HLEN - 2
    THEN RsaFail
    ELSE LET em == OaepEncode(Take(from, flen), k)
         IN  [len |-> k, data |-> [i \in 1..k |-> Byte(em[i] + rsa.n)]]

\* RSA_private_decrypt without the OAEP validation: the last 32 bytes of the
\* block are taken as the key
RSA_private_decrypt_NoPaddingCheck(flen, from, rsa) ==
    LET k  == RSA_size(rsa)
        em == [i \in 1..k |-> Byte(from[i] - rsa.n)]
    IN  [len |-> AES_256_KEY_LENGTH_BYTES,
         data |-> SubSeq(em, k - AES_256_KEY_LENGTH_BYTES + 1, k)]

RSA_private_decrypt(flen, from, rsa) ==
    LET k  == RSA_size(rsa)
        em == [i \in 1..k |-> Byte(from[i] - rsa.n)]
        nz == {i \in (2 * OAEP_HLEN + 2)..k : em[i] # 0}
    IN  IF ~rsa.priv \/ flen # k \/ em[1] # 0
           \/ (\E i \in 1..OAEP_HLEN : em[1 + OAEP_HLEN + i] # OAEP_LHASH)
           \/ nz = {}
        THEN RsaFail
        ELSE IF em[Min(nz)] # 1
        THEN RsaFail
        ELSE [len |-> k - Min(nz), data |-> SubSeq(em, Min(nz) + 1, k)]

-----------------------------------------------------------------------------
(* AES-256-CBC with block-alignment (PKCS#7) padding *)

KeyStream(key, iv, j) ==
    key[((j - 1) % AES_256_KEY_LENGTH_BYTES) + 1]
        + iv[((j - 1) % AES_256_IV_LENGTH_BYTES) + 1] + j

\* EVP_EncryptUpdate + EVP_EncryptFinal_ex: the padded data, enciphered
EvpEncrypt(data, key, iv) ==
    LET pad    == AES_BLOCK_SIZE - (Len(data) % AES_BLOCK_SIZE)
        padded == data \o Rep(pad, pad)
    IN  [j \in 1..Len(padded) |-> Byte(padded[j] + KeyStream(key, iv, j))]

\* what EVP_DecryptUpdate leaves in the output buffer: every block deciphered
EvpDecryptBlocks(enc, key, iv) ==
    [j \in 1..Len(enc) |-> Byte(enc[j] - KeyStream(key, iv, j))]

\* EVP_DecryptFinal_ex on the deciphered blocks: the padding length, or 0
\* when the padding is not valid
EvpPadLen(blocks) ==
    LET v == blocks[Len(blocks)] IN
    IF v = 0 \/ v > AES_BLOCK_SIZE THEN 0
    ELSE IF \A i \in 1..v : blocks[Len(blocks) - i + 1] = v THEN v ELSE 0

-----------------------------------------------------------------------------
(* Encryption.  A call returns [ok, what, data, made]: ok = FALSE is a     *)
(* thrown std::runtime_error with message `what` (no value is returned),   *)
(* made lists what the call had produced when it ended.  `fault` names the *)
(* library call the environment makes fail ("none": no failure).           *)

Throw(msg, made) == [ok |-> FALSE, what |-> msg, data |-> <<>>, made |-> made]

EncFaults ==
    { "none", "RAND_bytes key", "RAND_bytes iv", "EVP_EncryptInit_ex",
      "BIO_new_mem_buf", "RSA_public_encrypt" }

encryptWithAES(data, dataLength, key, iv, fault) ==
    IF fault = "EVP_EncryptInit_ex"
    THEN [ok |-> FALSE, what |-> "Failed to encrypt data", data |-> <<>>]
    ELSE LET encryptedSize == dataLength + AES_BLOCK_SIZE - (dataLength % AES_BLOCK_SIZE)
             encryptedData == EvpEncrypt(Take(data, dataLength), key, iv)
         IN  IF Len(encryptedData) # encryptedSize
             THEN [ok |-> FALSE, what |-> "Failed to encrypt data", data |-> <<>>]
             ELSE [ok |-> TRUE, what |-> "", data |-> encryptedData]

\* encryptWithRsa without its throws: a failure gives an empty wrapped key
encryptWithRsa_NoThrow(data, dataLength, rsaKey, fault) ==
    LET rsa == PEM_read_bio_RSA_PUBKEY(rsaKey) IN
    IF fault = "BIO_new_mem_buf" \/ fault = "RSA_public_encrypt" \/ rsa = NULL
    THEN [ok |-> TRUE, what |-> "", data |-> <<>>]
    ELSE [ok |-> TRUE, what |-> "",
          data |-> RSA_public_encrypt(dataLength, data, rsa).data]

encryptWithRsa(data, dataLength, rsaKey, fault) ==
    IF fault = "BIO_new_mem_buf"
    THEN [ok |-> FALSE, what |-> "Failed to create key BIO for message encryption",
          data |-> <<>>]
    ELSE LET rsa == PEM_read_bio_RSA_PUBKEY(rsaKey) IN
         IF rsa = NULL
         THEN [ok |-> FALSE, what |-> "Failed to create key RSA for message encryption",
               data |-> <<>>]
         ELSE LET encryptedSize == RSA_size(rsa)
                  enc == IF fault = "RSA_public_encrypt" THEN RsaFail
                         ELSE RSA_public_encrypt(dataLength, data, rsa)
              IN  IF enc.len = -1 \/ enc.len # encryptedSize
                  THEN [ok |-> FALSE, what |-> "Failed to encrypt with RSA key",
                        data |-> <<>>]
                  ELSE [ok |-> TRUE, what |-> "", data |-> enc.data]

createEncryptedMessage(data, dataLength, publicRsaKey, rnd, fault) ==
    IF fault = "RAND_bytes key"
    THEN Throw("Could not create random key for message encryption", <<>>)
    ELSE IF fault = "RAND_bytes iv"
    THEN Throw("Could not create random iv for message encryption", <<"aesKey">>)
    ELSE LET aesKey == rnd.key
             aesIv  == rnd.iv
             msg    == encryptWithAES(data, dataLength, aesKey, aesIv, fault)
         IN  IF ~msg.ok
             THEN Throw(msg.what, <<"aesKey", "aesIv">>)
             ELSE LET key == encryptWithRsa(aesKey, AES_256_KEY_LENGTH_BYTES,
                                            publicRsaKey, fault)
                  IN  IF ~key.ok
                      THEN Throw(key.what, <<"aesKey", "aesIv", "encryptedMsg">>)
                      ELSE [ok |-> TRUE, what |-> "",
                            data |-> ENCR_MARKER \o key.data \o aesIv \o msg.data,
                            made |-> <<"aesKey", "aesIv", "encryptedMsg",
                                       "encryptedKey">>]

-----------------------------------------------------------------------------
(* Decryption.  A call returns                                             *)
(*   ok, what  : as for encryption                                         *)
(*   site      : the throw statement that ended the call ("" when none)    *)
(*   data      : the returned bytes                                        *)
(*   trace     : the steps the call executed, in order                     *)
(*   maxRead   : how many bytes of the caller's buffer the call read       *)
(*   overread  : the call read elements beyond the end of a container      *)
(*   tagRead   : the three bytes compared with MSG_RECOGNIZE_TAG           *)
(*   totalLength : the length of the decrypted payload (-1: not reached)   *)

DecFaults == {"none", "BIO_new_mem_buf", "EVP_DecryptInit_ex"}

\* how the bytes past the end of the shrunk vector read: value-initialised
\* storage, or the deciphered last block EVP_DecryptUpdate left there
StaleKinds == {"zero", "block"}

\* k bytes of buf from offset off; memory past the buffer reads as 0
ReadBytes(buf, off, k) ==
    [i \in 1..k |-> IF off + i <= Len(buf) THEN buf[off + i] ELSE 0]

DecThrow(msg, site, trace, maxRead) ==
    [ok |-> FALSE, what |-> msg, site |-> site, data |-> <<>>, trace |-> trace,
     maxRead |-> maxRead, overread |-> FALSE, tagRead |-> <<>>,
     totalLength |-> -1]

\* checkMessageMarker without the comparison of the marker bytes
checkMessageMarker_LengthOnly(data, dataLength) ==
    ~(dataLength < ENCR_MARKER_SIZE)

\* TRUE when checkMessageMarker returns without throwing
checkMessageMarker(data, dataLength) ==
    ~(dataLength < ENCR_MARKER_SIZE
      \/ ReadBytes(data, 0, ENCR_MARKER_SIZE) # ENCR_MARKER)

\* [ok, what, site, key, rsaSize, trace, read]: data starts at offset off
decryptKey(buf, off, dataLength, rsaKey, fault) ==
    IF fault = "BIO_new_mem_buf"
    THEN [ok |-> FALSE, what |-> "Failed to create BIO", site |-> "decryptKey:keybio",
          key |-> <<>>, rsaSize |-> 0, trace |-> <<"BIO_new_mem_buf">>, read |-> 0]
    ELSE LET rsa == PEM_read_bio_RSAPrivateKey(rsaKey)
             t1  == <<"BIO_new_mem_buf", "PEM_read_bio_RSAPrivateKey">>
         IN
         IF rsa = NULL
         THEN [ok |-> FALSE, what |-> "Failed to create RSA", site |-> "decryptKey:rsa",
               key |-> <<>>, rsaSize |-> 0, trace |-> t1, read |-> 0]
         ELSE LET rsaSize == RSA_size(rsa) IN
              IF dataLength < rsaSize
              THEN [ok |-> FALSE, what |-> "Failed to decrypt message",
                    site |-> "decryptKey:dataLength", key |-> <<>>,
                    rsaSize |-> rsaSize, trace |-> t1, read |-> 0]
              ELSE LET dec == RSA_private_decrypt(rsaSize,
                                  ReadBytes(buf, off, rsaSize), rsa)
                       t2  == Append(t1, "RSA_private_decrypt")
                   IN  IF dec.len = -1 \/ dec.len # AES_256_KEY_LENGTH_BYTES
                       THEN [ok |-> FALSE, what |-> "Failed to decrypt message",
                             site |-> "decryptKey:RSA_private_decrypt",
                             key |-> <<>>, rsaSize |-> rsaSize, trace |-> t2,
                             read |-> rsaSize]
                       ELSE [ok |-> TRUE, what |-> "", site |-> "",
                             key |-> dec.data, rsaSize |-> rsaSize, trace |-> t2,
                             read |-> rsaSize]

\* readIv without its length check
readIv_NoCheck(dataLength) == TRUE

\* TRUE when readIv returns without throwing
readIv(dataLength) == ~(dataLength < AES_256_IV_LENGTH_BYTES)

decryptData(buf, off, dataLength, key, iv, stale, fault, trace) ==
    IF dataLength <= 0 \/ dataLength % AES_BLOCK_SIZE # 0
    THEN DecThrow("Failed to decrypt message", "decryptData:dataLength", trace, off)
    ELSE IF fault = "EVP_DecryptInit_ex"
    THEN DecThrow("Failed to decrypt message", "decryptData:EVP_DecryptInit_ex",
                  Append(trace, "EVP_DecryptInit_ex"), off)
    ELSE LET blocks == EvpDecryptBlocks(ReadBytes(buf, off, dataLength), key, iv)
             pad    == EvpPadLen(blocks)
             t3     == trace \o <<"EVP_DecryptInit_ex", "EVP_DecryptUpdate",
                                  "EVP_DecryptFinal_ex">>
         IN
         IF pad = 0
         THEN DecThrow("Failed to decrypt message", "decryptData:EVP_DecryptFinal_ex",
                       t3, off + dataLength)
         ELSE LET totalLength   == dataLength - pad
                  decryptedData == Take(blocks, totalLength)
                  tagLen        == Len(MSG_RECOGNIZE_TAG)
                  recognizeTag  ==
                      [i \in 1..tagLen |->
                          IF i <= totalLength THEN decryptedData[i]
                          ELSE IF stale = "block" THEN blocks[i] ELSE 0]
              IN  IF recognizeTag # MSG_RECOGNIZE_TAG
                  THEN [ok |-> FALSE, what |-> "Failed to decrypt message",
                        site |-> "decryptData:recognizeTag", data |-> <<>>,
                        trace |-> Append(t3, "recognizeTag"),
                        maxRead |-> off + dataLength,
                        overread |-> totalLength < tagLen,
                        tagRead |-> recognizeTag, totalLength |-> totalLength]
                  ELSE [ok |-> TRUE, what |-> "", site |-> "",
                        data |-> Drop(decryptedData, tagLen),
                        trace |-> Append(t3, "recognizeTag"),
                        maxRead |-> off + dataLength,
                        overread |-> totalLength < tagLen,
                        tagRead |-> recognizeTag, totalLength |-> totalLength]

createDecryptedMessage(encryptedData, dataLength, privateRsaKey, stale, fault) ==
    IF ~checkMessageMarker(encryptedData, dataLength)
    THEN DecThrow("Failed to decrypt message", "checkMessageMarker",
                  <<"checkMessageMarker">>,
                  IF dataLength < ENCR_MARKER_SIZE THEN 0 ELSE ENCR_MARKER_SIZE)
    ELSE LET off1 == ENCR_MARKER_SIZE
             len1 == dataLength - ENCR_MARKER_SIZE
             k    == decryptKey(encryptedData, off1, len1, privateRsaKey, fault)
             t1   == <<"checkMessageMarker">> \o k.trace
         IN
         IF ~k.ok
         THEN DecThrow(k.what, k.site, t1, off1 + k.read)
         ELSE LET off2 == off1 + k.rsaSize
                  len2 == len1 - k.rsaSize
              IN
              IF ~readIv(len2)
              THEN DecThrow("Failed to decrypt message", "readIv",
                            Append(t1, "readIv"), off2)
              ELSE LET aesIv == ReadBytes(encryptedData, off2, AES_256_IV_LENGTH_BYTES)
                       off3  == off2 + AES_256_IV_LENGTH_BYTES
                       len3  == len2 - AES_256_IV_LENGTH_BYTES
                   IN  decryptData(encryptedData, off3, len3, k.key, aesIv, stale,
                                   fault, Append(t1, "readIv"))

-----------------------------------------------------------------------------
(* Signatures: RSA (PKCS#1 v1.5) over the SHA-256 digest of the message.   *)

RECURSIVE SumBytes(_)
SumBytes(s) == IF s = <<>> THEN 0 ELSE s[1] + SumBytes(Tail(s))

\* the digest; distinct on the messages of the model
SHA256(msg) ==
    [i \in 1..SHA256_DIGEST_LENGTH |-> Byte(31 * Len(msg) + SumBytes(msg) + i)]

\* the encoded block 0x00 0x01 FF..FF 0x00 digest for a modulus of k bytes
Pkcs1Encode(msg, k) ==
    <<0, 1>> \o Rep(k - 3 - SHA256_DIGEST_LENGTH, 255) \o <<0>> \o SHA256(msg)

\* EVP_DigestSignFinal: a signature of RSA_size(rsa) bytes
RsaSignature(rsa, msg) ==
    LET k  == RSA_size(rsa)
        em == Pkcs1Encode(msg, k)
    IN  [i \in 1..k |-> Byte(em[i] - rsa.n)]

\* EVP_DigestVerifyFinal: 1 the signature matches, 0 it does not
RsaVerify(rsa, msg, sig) ==
    LET k  == RSA_size(rsa)
        em == Pkcs1Encode(msg, k)
    IN  IF Len(sig) = k /\ \A i \in 1..k : Byte(sig[i] + rsa.n) = em[i]
        THEN 1 ELSE 0

SigFaults == {"none", "BIO_new_mem_buf", "EVP_DigestSignInit", "EVP_DigestVerifyInit",
              "EVP_DigestVerifyFinal"}

\* what the library does with a NULL key (a null pointer is dereferenced):
\* the process dies, or the call reports an error
NullKeyOutcomes == {"crash", "error"}

createPrivateRSA(key, fault) ==
    IF fault = "BIO_new_mem_buf" THEN NULL ELSE PEM_read_bio_RSAPrivateKey(key)

createPublicRSA(key, fault) ==
    IF fault = "BIO_new_mem_buf" THEN NULL ELSE PEM_read_bio_RSA_PUBKEY(key)

\* matchRSAKeys without the null checks before BN_cmp
matchRSAKeys_NoNullCheck(publicKey, privateKey, fault) ==
    LET private_key == createPrivateRSA(privateKey, fault)
        public_key  == createPublicRSA(publicKey, fault)
    IN  [ok |-> TRUE, value |-> public_key.n = private_key.n]

matchRSAKeys(publicKey, privateKey, fault) ==
    LET private_key == createPrivateRSA(privateKey, fault)
        public_key  == createPublicRSA(publicKey, fault)
    IN  [ok |-> TRUE,
         value |-> private_key # NULL /\ public_key # NULL
                   /\ public_key.n = private_key.n]

\* [result, crashed, signature]
RSASign(rsa, Msg, ub, fault) ==
    IF rsa = NULL
    THEN [result |-> FALSE, crashed |-> ub = "crash", signature |-> <<>>]
    ELSE IF fault = "EVP_DigestSignInit"
    THEN [result |-> FALSE, crashed |-> FALSE, signature |-> <<>>]
    ELSE [result |-> TRUE, crashed |-> FALSE, signature |-> RsaSignature(rsa, Msg)]

signMessage(privateKey, plainText, ub, fault) ==
    LET privateRSA == createPrivateRSA(privateKey, fault)
        s          == RSASign(privateRSA, plainText, ub, fault)
    IN  IF s.crashed
        THEN [ok |-> FALSE, crashed |-> TRUE, what |-> "", data |-> <<>>]
        ELSE IF ~s.result \/ Len(s.signature) # RSA_SIGNATURE_LENGTH
        THEN [ok |-> FALSE, crashed |-> FALSE, what |-> "Could not sign message",
              data |-> <<>>]
        ELSE [ok |-> TRUE, crashed |-> FALSE, what |-> "", data |-> s.signature]

\* [result, Authentic, crashed]
RSAVerifySignature(rsa, signature, Msg, ub, fault) ==
    IF rsa = NULL
    THEN [result |-> FALSE, Authentic |-> FALSE, crashed |-> ub = "crash"]
    ELSE IF fault = "EVP_DigestVerifyInit"
    THEN [result |-> FALSE, Authentic |-> FALSE, crashed |-> FALSE]
    ELSE LET AuthStatus == IF fault = "EVP_DigestVerifyFinal" THEN -1
                           ELSE RsaVerify(rsa, Msg, signature)
         IN  IF AuthStatus = 1
             THEN [result |-> TRUE, Authentic |-> TRUE, crashed |-> FALSE]
             ELSE IF AuthStatus = 0
             THEN [result |-> TRUE, Authentic |-> FALSE, crashed |-> FALSE]
             ELSE [result |-> FALSE, Authentic |-> FALSE, crashed |-> FALSE]

\* ok = FALSE would be a thrown error: verifySignature has no throw
verifySignature(publicKey, plainText, signature, ub, fault) ==
    LET publicRSA == createPublicRSA(publicKey, fault)
        v         == RSAVerifySignature(publicRSA, signature, plainText, ub, fault)
    IN  [ok |-> TRUE, crashed |-> v.crashed, value |-> v.result /\ v.Authentic,
         result |-> v.result, Authentic |-> v.Authentic]

-----------------------------------------------------------------------------
(* Key generation.  generateKeysPair(publicRsaKey, privateRsaKey, ...)     *)
(* returns ok (the bool it returns), the two output strings as the caller  *)
(* finds them, onNull (the library calls it made on a handle that was      *)
(* never created) and crashed (the process died in the call).              *)

GenFaults == {"none", "BN_set_word", "RSA_generate_key_ex", "PEM_write_bio_PUBKEY",
              "PEM_write_bio_RSAPrivateKey"}

\* a buffer from new char[] is released with delete, not delete[]: the
\* storage is released all the same, or the process dies
DeleteOutcomes == {"released", "crash"}

\* the empty string, and what a PEM writer that failed had written so far
EmptyText == [hdr |-> "empty", n |-> 0, bits |-> 0]
PartialPem(k) == [hdr |-> "partial", n |-> k.n, bits |-> k.bits]

\* the key pairs RSA_generate_key_ex may find (bits = 2048)
FreshKeys == {k \in KeyPairs : k.bits = KEY_BITS}

\* BIO_pending and BIO_read of a memory BIO: everything written to it;
\* of a null BIO: nothing (BIO_ctrl returns 0 for a null BIO)
BIO_pending(created, written, partial, text, k) ==
    IF ~created THEN EmptyText
    ELSE IF written THEN text
    ELSE IF partial THEN PartialPem(k)
    ELSE EmptyText

generateKeysPair(publicRsaKey, privateRsaKey, k, partial, del, fault) ==
    LET rvWord == fault # "BN_set_word"
        rvGen == rvWord /\ fault # "RSA_generate_key_ex"
        bp_public == rvGen
        rvPub == bp_public /\ fault # "PEM_write_bio_PUBKEY"
        bp_private == rvPub
        rv == bp_private /\ fault # "PEM_write_bio_RSAPrivateKey"
        publicKey == BIO_pending(bp_public, rvPub, partial, PubPem(k), k)
        privateKey == BIO_pending(bp_private, rv, partial, PrivPem(k), k)
        onNull == (IF bp_public THEN <<>>
                   ELSE <<"BIO_pending(bp_public)", "BIO_read(bp_public)",
                          "BIO_free_all(bp_public)">>)
                  \o (IF bp_private THEN <<>>
                      ELSE <<"BIO_pending(bp_private)", "BIO_read(bp_private)",
                             "BIO_free_all(bp_private)">>)
                  \o (IF rvWord THEN <<>> ELSE <<"RSA_free(rsa)">>)
    IN  [ok |-> rv /\ del # "crash",
         crashed |-> del = "crash",
         publicRsaKey |-> publicKey,
         privateRsaKey |-> privateKey,
         onNull |-> onNull]

-----------------------------------------------------------------------------
(* What a call leaves in memory.  keys are the copies of the session key   *)
(* in storage the call has given up (its dead stack frame, a heap buffer   *)
(* it released); acquired and released list the library objects the call   *)
(* created and the ones it handed back, by the name of the local variable. *)

Objects(acquired, released) == [acquired |-> acquired, released |-> released]

Join(a, b) == Objects(a.acquired \o b.acquired, a.released \o b.released)

NoObjects == Objects(<<>>, <<>>)

NoMem == [keys |-> {}, acquired |-> <<>>, released |-> <<>>]

Mem(keys, objects) ==
    [keys |-> keys, acquired |-> objects.acquired, released |-> objects.released]

\* the arrays aesKey (and the buffer decryptedData) go out of scope as they
\* are: no statement overwrites them
LeftBehind(where, bytes) == [where |-> where, bytes |-> bytes]

createEncryptedMessage_Keys(rnd, fault) ==
    IF fault = "RAND_bytes key" THEN {}
    ELSE {LeftBehind("createEncryptedMessage:aesKey", rnd.key)}

createDecryptedMessage_Keys(encryptedData, dataLength, privateRsaKey, fault) ==
    IF ~checkMessageMarker(encryptedData, dataLength) THEN {}
    ELSE LET k == decryptKey(encryptedData, ENCR_MARKER_SIZE,
                             dataLength - ENCR_MARKER_SIZE, privateRsaKey, fault)
         IN  IF ~k.ok THEN {}
             ELSE {LeftBehind("decryptKey:decryptedData", k.key),
                   LeftBehind("createDecryptedMessage:aesKey", k.key)}

\* keybio and rsa of encryptWithRsa: neither is freed on any path
encryptWithRsa_Objects(rsaKey, fault) ==
    IF fault = "BIO_new_mem_buf" THEN NoObjects
    ELSE IF PEM_read_bio_RSA_PUBKEY(rsaKey) = NULL
    THEN Objects(<<"encryptWithRsa:keybio">>, <<>>)
    ELSE Objects(<<"encryptWithRsa:keybio", "encryptWithRsa:rsa">>, <<>>)

\* encryptWithRsa runs once encryptWithAES has returned
createEncryptedMessage_Objects(made, publicRsaKey, fault) ==
    IF "encryptedMsg" \in Range(made) THEN encryptWithRsa_Objects(publicRsaKey, fault)
    ELSE NoObjects

\* keybio and rsa of decryptKey: neither is freed on any path
decryptKey_Objects(rsaKey, fault) ==
    IF fault = "BIO_new_mem_buf" THEN NoObjects
    ELSE IF PEM_read_bio_RSAPrivateKey(rsaKey) = NULL
    THEN Objects(<<"decryptKey:keybio">>, <<>>)
    ELSE Objects(<<"decryptKey:keybio", "decryptKey:rsa">>, <<>>)

createDecryptedMessage_Objects(encryptedData, dataLength, privateRsaKey, fault) ==
    IF ~checkMessageMarker(encryptedData, dataLength) THEN NoObjects
    ELSE decryptKey_Objects(privateRsaKey, fault)

\* createPrivateRSA keeps its keybio; the RSA goes to the caller
createPrivateRSA_Objects(key, fault) ==
    IF fault = "BIO_new_mem_buf" THEN NoObjects
    ELSE IF PEM_read_bio_RSAPrivateKey(key) = NULL
    THEN Objects(<<"createPrivateRSA:keybio">>, <<>>)
    ELSE Objects(<<"createPrivateRSA:keybio", "createPrivateRSA:rsa">>, <<>>)

\* createPublicRSA frees its keybio; the RSA goes to the caller
createPublicRSA_Objects(key, fault) ==
    IF fault = "BIO_new_mem_buf" THEN NoObjects
    ELSE IF PEM_read_bio_RSA_PUBKEY(key) = NULL
    THEN Objects(<<"createPublicRSA:keybio">>, <<"createPublicRSA:keybio">>)
    ELSE Objects(<<"createPublicRSA:keybio", "createPublicRSA:rsa">>,
                 <<"createPublicRSA:keybio">>)

\* RSA_free(public_key); RSA_free(private_key): a null pointer is skipped
matchRSAKeys_Objects(publicKey, privateKey, fault) ==
    LET private_key == createPrivateRSA(privateKey, fault)
        public_key  == createPublicRSA(publicKey, fault)
    IN  Join(Join(createPrivateRSA_Objects(privateKey, fault),
                  createPublicRSA_Objects(publicKey, fault)),
             Objects(<<>>,
                     (IF public_key = NULL THEN <<>> ELSE <<"createPublicRSA:rsa">>)
                     \o (IF private_key = NULL THEN <<>>
                         ELSE <<"createPrivateRSA:rsa">>)))

\* EVP_MD_CTX_create and EVP_PKEY_new; EVP_MD_CTX_cleanup empties the
\* context and frees neither
RSASign_Objects == Objects(<<"RSASign:m_RSASignCtx", "RSASign:priKey">>, <<>>)

signMessage_Objects(privateKey, fault) ==
    Join(createPrivateRSA_Objects(privateKey, fault), RSASign_Objects)

RSAVerifySignature_Objects ==
    Objects(<<"RSAVerifySignature:pubKey", "RSAVerifySignature:m_RSAVerifyCtx">>, <<>>)

verifySignature_Objects(publicKey, fault) ==
    Join(createPublicRSA_Objects(publicKey, fault), RSAVerifySignature_Objects)

\* bignum always; evp_pkey and rsa once BN_set_word succeeded; the two
\* BIOs as far as the steps got; evp_pkey is never freed
generateKeysPair_Objects(fault) ==
    LET rvWord == fault # "BN_set_word"
        rvGen == rvWord /\ fault # "RSA_generate_key_ex"
        rvPub == rvGen /\ fault # "PEM_write_bio_PUBKEY"
        made == <<"generateKeysPair:bignum">>
                \o (IF rvWord THEN <<"generateKeysPair:evp_pkey", "generateKeysPair:rsa">>
                    ELSE <<>>)
                \o (IF rvGen THEN <<"generateKeysPair:bp_public">> ELSE <<>>)
                \o (IF rvPub THEN <<"generateKeysPair:bp_private">> ELSE <<>>)
    IN  Objects(made, SelectSeq(made, LAMBDA o : o # "generateKeysPair:evp_pkey"))

-----------------------------------------------------------------------------
(* The makebet RPC.  A call returns                                        *)
(*   ok, what : ok = FALSE is a thrown std::runtime_error with message what *)
(*   trace    : the checks the call passed and the steps it took, in order  *)
(*   cache    : the static changeAddress when the call ended                *)
(*   derivedNow : the call wrote the static changeAddress                   *)
(*   used     : the change address put into the transaction                 *)
(*   signed, sent : tx.signTx() and tx.sendTx() were called                 *)

MAX_BET_REWARD == 1024

\* what GetWallets()[0] may be: a null pointer (0) or one of two wallets
Wallets == 0..2

\* an address is the wallet it comes from and its index among the
\* addresses derived; the empty string
EmptyAddress == [wallet |-> 0, index |-> 0]

\* masks are 0, 1, 3, 7, ...: getMask gives the smallest one that covers
\* its argument, maskToReward the number of values under a mask
Masks == {2^k - 1 : k \in 0..30}
getMask(x) == CHOOSE m \in Masks : m >= x /\ \A o \in Masks : o >= x => m <= o
maskToReward(mask) == mask + 1

\* rewardMult > 0 && ((rewardMult & (rewardMult-1)) == 0)
IsPowerOf2(x) == x > 0 /\ \E k \in 0..30 : x = 2^k

\* what the node and the wallet may do to a call
BetEnv ==
    [limit : {3}, estimateMode : BOOLEAN, funds : BOOLEAN, keypool : BOOLEAN,
     unlocked : BOOLEAN, txFault : {"none", "signTx", "sendTx"}]

\* changeAddress.empty(), and a test that always finds the cache empty
CacheEmpty_Always(cache) == TRUE
CacheEmpty(cache) == cache = EmptyAddress

\* reward > MAX_BET_REWARD, and a test that lets every reward through
RewardTooBig_Never(reward) == FALSE
RewardTooBig(reward) == reward > MAX_BET_REWARD

BetThrow(msg, trace, cache, wrote) ==
    [ok |-> FALSE, what |-> msg, trace |-> trace, cache |-> cache,
     derivedNow |-> wrote, used |-> EmptyAddress, signed |-> FALSE, sent |-> FALSE]

getChangeAddress(pwallet, index) == [wallet |-> pwallet, index |-> index]

\* params: size, betNumber, betAmount, hasMult, rewardMult; pwallet = 0 is
\* a null wallet pointer; index numbers the next address of the key pool
makebet(params, pwallet, cache, index, env) ==
    IF params.size < 2 \/ params.size > 6 THEN BetThrow("usage", <<>>, cache, FALSE)
    ELSE IF pwallet = 0 THEN BetThrow("No wallet found", <<>>, cache, FALSE)
    ELSE IF params.betNumber < 0 \/ params.betNumber >= MAX_BET_REWARD
    THEN BetThrow("Bet number is out of range", <<>>, cache, FALSE)
    ELSE IF params.betAmount <= 0 \/ params.betAmount >= env.limit
    THEN BetThrow("Amount is out of range", <<"number">>, cache, FALSE)
    ELSE
    LET mask0 == getMask(params.betNumber)
        minReward == maskToReward(mask0)
        t2 == <<"number", "amount">>
    IN
    IF params.hasMult /\ ~IsPowerOf2(params.rewardMult)
    THEN BetThrow("reward_mult_ratio must be power of 2", t2, cache, FALSE)
    ELSE IF params.hasMult /\ params.rewardMult < minReward
    THEN BetThrow("reward_mult_ratio must be at least", t2 \o <<"power of 2">>,
                  cache, FALSE)
    ELSE
    LET mask == IF params.hasMult THEN getMask(params.rewardMult - 1) ELSE mask0
        t3 == t2 \o (IF params.hasMult THEN <<"power of 2", "minimum reward">>
                     ELSE <<>>)
    IN
    IF ~env.estimateMode THEN BetThrow("Invalid estimate_mode parameter", t3, cache, FALSE)
    ELSE IF ~env.funds THEN BetThrow("Insufficient funds", t3, cache, FALSE)
    ELSE IF CacheEmpty(cache) /\ ~env.keypool
    THEN BetThrow("Keypool ran out", t3 \o <<"funds">>, cache, FALSE)
    ELSE
    LET wrote == CacheEmpty(cache)
        address == IF wrote THEN getChangeAddress(pwallet, index) ELSE cache
        reward == maskToReward(mask)
        t4 == t3 \o <<"funds">>
        t5 == t4 \o <<"reward">>
    IN
    IF RewardTooBig(reward)
    THEN BetThrow("Potential reward is greater than", t4, address, wrote)
    ELSE IF ~env.unlocked
    THEN [BetThrow("Please enter the wallet passphrase", t5, address, wrote)
             EXCEPT !.used = address]
    ELSE IF env.txFault = "signTx"
    THEN [BetThrow("signTx", t5 \o <<"signTx">>, address, wrote)
             EXCEPT !.used = address, !.signed = TRUE]
    ELSE IF env.txFault = "sendTx"
    THEN [BetThrow("sendTx", t5 \o <<"signTx", "sendTx">>, address, wrote)
             EXCEPT !.used = address, !.signed = TRUE, !.sent = TRUE]
    ELSE [ok |-> TRUE, what |-> "", trace |-> t5 \o <<"signTx", "sendTx">>,
          cache |-> address, derivedNow |-> wrote, used |-> address,
          signed |-> TRUE, sent |-> TRUE]

-----------------------------------------------------------------------------
(* The caller.  op, args and out are the last call, its inputs and its     *)
(* result; held is the envelope or signature the caller got from the last  *)
(* successful createEncryptedMessage or signMessage, with the inputs it    *)
(* was made from; mem is what the last call left in memory.                *)

\* "hello world"
Hello == <<104, 101, 108, 108, 111, 32, 119, 111, 114, 108, 100>>

\* k bytes of "hello worldhello world..."
PlainText(k) == [i \in 1..k |-> Hello[((i - 1) % Len(Hello)) + 1]]

\* k bytes of "MSGhello worldhello world..."
TaggedText(k) ==
    [i \in 1..k |-> IF i <= Len(MSG_RECOGNIZE_TAG) THEN MSG_RECOGNIZE_TAG[i]
                    ELSE Hello[((i - Len(MSG_RECOGNIZE_TAG) - 1) % Len(Hello)) + 1]]

Plaintexts ==
    {PlainText(k) : k \in 0..MaxPlainLen} \cup {TaggedText(k) : k \in 0..MaxPlainLen}

Messages == {PlainText(k) : k \in 0..MaxMsg}

\* what RAND_bytes may deliver
RandSources ==
    { [key |-> Rep(AES_256_KEY_LENGTH_BYTES, 7), iv |-> Rep(AES_256_IV_LENGTH_BYTES, 3)],
      [key |-> [i \in 1..AES_256_KEY_LENGTH_BYTES |-> Byte(5 * i)],
       iv  |-> [i \in 1..AES_256_IV_LENGTH_BYTES |-> Byte(11 * i)]] }

Nothing == [kind |-> "none", bytes |-> <<>>, data |-> <<>>, n |-> 0, bits |-> 0,
            rnd |-> 0]

\* the buffers handed to createDecryptedMessage: the held envelope e (made
\* for a modulus of m bytes), cut or changed
EnvelopeVariants ==
    { "intact", "empty", "short", "marker only", "no marker", "bad marker",
      "cut key", "no iv", "cut iv", "no ciphertext", "misaligned",
      "bad key", "bad key cut", "bad padding", "bad tag", "short key" }

Variant(e, m, v) ==
    CASE v = "intact"        -> e
      [] v = "empty"         -> <<>>
      [] v = "short"         -> Take(e, ENCR_MARKER_SIZE - 3)
      [] v = "marker only"   -> Take(e, ENCR_MARKER_SIZE)
      [] v = "no marker"     -> Drop(e, ENCR_MARKER_SIZE)
      [] v = "bad marker"    -> Flip(e, ENCR_MARKER_SIZE)
      [] v = "cut key"       -> Take(e, ENCR_MARKER_SIZE + m - 1)
      [] v = "no iv"         -> Take(e, ENCR_MARKER_SIZE + m)
      [] v = "cut iv"        -> Take(e, ENCR_MARKER_SIZE + m + AES_256_IV_LENGTH_BYTES - 1)
      [] v = "no ciphertext" -> Take(e, ENCR_MARKER_SIZE + m + AES_256_IV_LENGTH_BYTES)
      [] v = "misaligned"    -> Take(e, Len(e) - 1)
      [] v = "bad key"       -> Flip(e, ENCR_MARKER_SIZE + 1)
      [] v = "bad key cut"   -> Take(Flip(e, ENCR_MARKER_SIZE + 1), ENCR_MARKER_SIZE + m + 5)
      [] v = "bad padding"   -> Flip(e, Len(e))
      [] v = "bad tag"       -> Flip(e, ENCR_MARKER_SIZE + m + AES_256_IV_LENGTH_BYTES + 1)
      [] v = "short key"     ->
            ENCR_MARKER
            \o RSA_public_encrypt(AES_BLOCK_SIZE, Rep(AES_BLOCK_SIZE, 7),
                   [valid |-> TRUE, n |-> held.n, bits |-> held.bits,
                    priv |-> FALSE]).data
            \o Drop(e, ENCR_MARKER_SIZE + m)

SignatureVariants == {"intact", "truncated", "changed", "empty"}

SigVariant(s, v) ==
    CASE v = "intact"    -> s
      [] v = "truncated" -> Take(s, Len(s) - 1)
      [] v = "changed"   -> Flip(s, Len(s))
      [] v = "empty"     -> <<>>

Init ==
    /\ op = "none"
    /\ args = [fault |-> "none"]
    /\ out = [ok |-> TRUE]
    /\ held = Nothing
    /\ mem = NoMem
    /\ changeAddress = EmptyAddress
    /\ wallet = 1
    /\ derived = <<>>

\* the caller holds nothing and has no call to look at
Idle == op = "none" /\ held = Nothing

Encrypt ==
    /\ Idle
    /\ \E data \in Plaintexts, key \in PubTexts, rnd \in RandSources, fault \in EncFaults :
        LET r == createEncryptedMessage(data, Len(data), key, rnd, fault) IN
        /\ op' = "createEncryptedMessage"
        /\ args' = [data |-> data, key |-> key, fault |-> fault]
        /\ out' = r
        /\ held' = IF r.ok
                   THEN [kind |-> "envelope", bytes |-> r.data, data |-> data,
                         n |-> key.n, bits |-> key.bits, rnd |-> rnd]
                   ELSE Nothing
        /\ mem' = Mem(createEncryptedMessage_Keys(rnd, fault),
                      createEncryptedMessage_Objects(r.made, key, fault))
        /\ UNCHANGED lottery

Decrypt ==
    /\ op = "createEncryptedMessage"
    /\ held.kind = "envelope"
    /\ \E v \in EnvelopeVariants, key \in PrivTexts, stale \in StaleKinds,
          fault \in DecFaults :
        LET buf == Variant(held.bytes, held.bits \div 8, v) IN
        /\ fault # "none" => v = "intact"
        /\ op' = "createDecryptedMessage"
        /\ args' = [buf |-> buf, key |-> key, variant |-> v, fault |-> fault]
        /\ out' = createDecryptedMessage(buf, Len(buf), key, stale, fault)
        /\ mem' = Mem(createDecryptedMessage_Keys(buf, Len(buf), key, fault),
                      createDecryptedMessage_Objects(buf, Len(buf), key, fault))
        /\ UNCHANGED held
        /\ UNCHANGED lottery

Sign ==
    /\ Idle
    /\ \E key \in PrivTexts, msg \in Messages, ub \in NullKeyOutcomes, fault \in SigFaults :
        LET r == signMessage(key, msg, ub, fault) IN
        /\ fault \in {"none", "BIO_new_mem_buf", "EVP_DigestSignInit"}
        /\ op' = "signMessage"
        /\ args' = [key |-> key, msg |-> msg, fault |-> fault]
        /\ out' = r
        /\ held' = IF r.ok
                   THEN [kind |-> "signature", bytes |-> r.data, data |-> msg,
                         n |-> key.n, bits |-> key.bits, rnd |-> 0]
                   ELSE Nothing
        /\ mem' = Mem({}, signMessage_Objects(key, fault))
        /\ UNCHANGED lottery

Verify ==
    /\ op = "signMessage"
    /\ held.kind = "signature"
    /\ \E key \in PubTexts, msg \in Messages, v \in SignatureVariants,
          ub \in NullKeyOutcomes, fault \in SigFaults :
        /\ fault \in {"none", "BIO_new_mem_buf", "EVP_DigestVerifyInit",
                      "EVP_DigestVerifyFinal"}
        /\ op' = "verifySignature"
        /\ args' = [key |-> key, msg |-> msg, sig |-> SigVariant(held.bytes, v),
                    variant |-> v, fault |-> fault]
        /\ out' = verifySignature(key, msg, SigVariant(held.bytes, v), ub, fault)
        /\ mem' = Mem({}, verifySignature_Objects(key, fault))
        /\ UNCHANGED held
        /\ UNCHANGED lottery

Match ==
    /\ Idle
    /\ \E pub \in PubTexts, priv \in PrivTexts, fault \in {"none", "BIO_new_mem_buf"} :
        /\ op' = "matchRSAKeys"
        /\ args' = [pub |-> pub, priv |-> priv, fault |-> fault]
        /\ out' = matchRSAKeys(pub, priv, fault)
        /\ mem' = Mem({}, matchRSAKeys_Objects(pub, priv, fault))
        /\ UNCHANGED held
        /\ UNCHANGED lottery

\* the caller's two strings hold an earlier pair or nothing
GenerateKeys ==
    /\ Idle
    /\ \E k \in FreshKeys, old \in {TRUE, FALSE}, partial \in BOOLEAN,
          del \in DeleteOutcomes, fault \in GenFaults :
        LET pub == IF old THEN PubPem(KeyA) ELSE EmptyText
            priv == IF old THEN PrivPem(KeyA) ELSE EmptyText IN
        /\ op' = "generateKeysPair"
        /\ args' = [pub |-> pub, priv |-> priv, fault |-> fault]
        /\ out' = generateKeysPair(pub, priv, k, partial, del, fault)
        /\ mem' = Mem({}, generateKeysPair_Objects(fault))
        /\ UNCHANGED held
        /\ UNCHANGED lottery

\* the caller drops what it holds and looks at the next call on its own
Forget ==
    /\ ~Idle
    /\ op' = "none"
    /\ args' = [fault |-> "none"]
    /\ out' = [ok |-> TRUE]
    /\ held' = Nothing
    /\ mem' = NoMem
    /\ UNCHANGED lottery

\* the parameter arrays of makebet: bet number, amount and, when given, the
\* reward_mult_ratio; an array of one element is too short
BetNumbers == {-1, 0, 5, MAX_BET_REWARD - 1, MAX_BET_REWARD}
BetAmounts == 0..3
RewardMults == {0, 1, 3, 4, 8, MAX_BET_REWARD, 2 * MAX_BET_REWARD}
BetParams ==
    [size : {6}, betNumber : BetNumbers, betAmount : BetAmounts,
     hasMult : {TRUE}, rewardMult : RewardMults]
    \cup [size : {2}, betNumber : BetNumbers, betAmount : BetAmounts,
          hasMult : {FALSE}, rewardMult : {0}]
    \cup [size : {1}, betNumber : {5}, betAmount : {0}, hasMult : {FALSE},
          rewardMult : {0}]

MakeBet ==
    /\ Idle
    /\ Len(derived) < MaxDerived
    /\ \E params \in BetParams, env \in BetEnv :
        LET r == makebet(params, wallet, changeAddress, Len(derived) + 1, env) IN
        /\ op' = "makebet"
        /\ args' = [params |-> params, wallet |-> wallet, cache |-> changeAddress]
        /\ out' = r
        /\ changeAddress' = r.cache
        /\ derived' = IF r.derivedNow THEN Append(derived, r.cache) ELSE derived
        /\ UNCHANGED <<held, mem, wallet>>

\* another wallet becomes the first of the loaded wallets
SwitchWallet ==
    /\ Idle
    /\ \E w \in Wallets \ {wallet} : wallet' = w
    /\ UNCHANGED <<op, args, out, held, mem, changeAddress, derived>>

Next == Encrypt \/ Decrypt \/ Sign \/ Verify \/ Match \/ GenerateKeys \/ Forget

Spec == Init /\ [][Next]_vars

\* the lottery RPC on its own
NextBet == MakeBet \/ SwitchWallet \/ Forget

SpecBet == Init /\ [][NextBet]_vars

-----------------------------------------------------------------------------
(* Properties *)

IsEnc == op = "createEncryptedMessage"
IsDec == op = "createDecryptedMessage"
IsSign == op = "signMessage"
IsVerify == op = "verifySignature"
IsMatch == op = "matchRSAKeys"
IsGen == op = "generateKeysPair"
IsBet == op = "makebet"

\* the key texts of the pair the held envelope or signature was made with
HeldPriv == [hdr |-> "RSA PRIVATE KEY", n |-> held.n, bits |-> held.bits]
HeldPub == [hdr |-> "PUBLIC KEY", n |-> held.n, bits |-> held.bits]

\* the throw statements that report a malformed envelope (FormatError), a
\* rejected primitive (CryptoError) and a tag mismatch (AuthenticationError)
FormatSites ==
    {"checkMessageMarker", "decryptKey:dataLength", "readIv", "decryptData:dataLength"}
CryptoSites == {"decryptKey:RSA_private_decrypt", "decryptData:EVP_DecryptFinal_ex"}
AuthSites == {"decryptData:recognizeTag"}

InTrace(step) == \E i \in 1..Len(out.trace) : out.trace[i] = step

\* C1: decrypting an unchanged envelope with the private key of the pair it
\* was made for succeeds and returns exactly the plaintext that was encrypted.
C1_RoundTrip ==
    (IsDec /\ args.variant = "intact" /\ args.fault = "none" /\ args.key = HeldPriv)
        => (out.ok /\ out.data = held.data)

\* C2: a returned envelope is "MESSAGE:", the m-byte wrapped key, the 16-byte
\* IV and the ciphertext of tag + plaintext, 8 + m + 16 + 16*((n+3)/16 + 1)
\* bytes in all (n the plaintext length, m the modulus length).
C2_EnvelopeLayout ==
    (IsEnc /\ out.ok) =>
        LET m == args.key.bits \div 8
            n == Len(args.data)
        IN  /\ Take(out.data, ENCR_MARKER_SIZE) = ENCR_MARKER
            /\ SubSeq(out.data, ENCR_MARKER_SIZE + m + 1,
                      ENCR_MARKER_SIZE + m + AES_256_IV_LENGTH_BYTES) = held.rnd.iv
            /\ Drop(out.data, ENCR_MARKER_SIZE + m + AES_256_IV_LENGTH_BYTES)
                   = EvpEncrypt(MSG_RECOGNIZE_TAG \o args.data, held.rnd.key,
                                held.rnd.iv)
            /\ Len(out.data) = ENCR_MARKER_SIZE + m + AES_256_IV_LENGTH_BYTES
                   + AES_BLOCK_SIZE * (((n + Len(MSG_RECOGNIZE_TAG)) \div AES_BLOCK_SIZE) + 1)

\* the layout the code produces: the same, with the ciphertext of the data as given
EnvelopeLayoutAsBuilt ==
    (IsEnc /\ out.ok) =>
        LET m == args.key.bits \div 8
            n == Len(args.data)
        IN  /\ Take(out.data, ENCR_MARKER_SIZE) = ENCR_MARKER
            /\ Len(out.data) = ENCR_MARKER_SIZE + m + AES_256_IV_LENGTH_BYTES
                   + AES_BLOCK_SIZE * ((n \div AES_BLOCK_SIZE) + 1)

\* the round trip the code gives: data that starts with the tag comes back
\* without it
RoundTripOfTaggedData ==
    (IsDec /\ args.variant = "intact" /\ args.fault = "none" /\ args.key = HeldPriv
       /\ Take(held.data, Len(MSG_RECOGNIZE_TAG)) = MSG_RECOGNIZE_TAG)
        => (out.ok /\ out.data = Drop(held.data, Len(MSG_RECOGNIZE_TAG)))

\* C3: a buffer shorter than 8 bytes or not starting with "MESSAGE:" is
\* rejected by the marker check, before the key is parsed and before any RSA
\* or AES step, and nothing is returned.
C3_MarkerRejectionFirst ==
    (IsDec /\ (Len(args.buf) < ENCR_MARKER_SIZE
               \/ Take(args.buf, ENCR_MARKER_SIZE) # ENCR_MARKER))
        => /\ ~out.ok
           /\ out.site = "checkMessageMarker"
           /\ out.trace = <<"checkMessageMarker">>
           /\ out.data = <<>>

C3_Witness ==
    /\ IsDec
    /\ args.variant = "bad marker"
    /\ args.key = HeldPriv
    /\ ~out.ok
    /\ out.site = "checkMessageMarker"


\* the case of C4: the marker is there, the private key parses (m is its
\* modulus length) and no library call fails; the buffer is shorter than
\* 8 + m + 16, or its ciphertext part is empty or not a multiple of 16
C4_Case ==
    /\ IsDec
    /\ args.fault = "none"
    /\ args.key.hdr = "RSA PRIVATE KEY"
    /\ Len(args.buf) >= ENCR_MARKER_SIZE
    /\ Take(args.buf, ENCR_MARKER_SIZE) = ENCR_MARKER
    /\ LET c == Len(args.buf) - ENCR_MARKER_SIZE - (args.key.bits \div 8)
                    - AES_256_IV_LENGTH_BYTES
       IN  c <= 0 \/ c % AES_BLOCK_SIZE # 0

\* C4 as stated: every such buffer fails with FormatError, nothing is
\* returned and no byte beyond the supplied length is read.
C4_LengthValidation ==
    C4_Case => /\ ~out.ok
               /\ out.data = <<>>
               /\ out.site \in FormatSites
               /\ out.maxRead <= Len(args.buf)

\* C4 amended: every such buffer fails, nothing is returned and no byte
\* beyond the supplied length is read; the failure is a FormatError, except
\* that a buffer holding at least m bytes after the marker whose wrapped key
\* does not decrypt fails at the wrapped-key step, which comes before the IV
\* and ciphertext length checks.
C4_LengthValidationAmended ==
    C4_Case =>
        LET m == args.key.bits \div 8 IN
        /\ ~out.ok
        /\ out.data = <<>>
        /\ out.maxRead <= Len(args.buf)
        /\ out.site \in FormatSites \cup {"decryptKey:RSA_private_decrypt"}
        /\ Len(args.buf) < ENCR_MARKER_SIZE + m => out.site = "decryptKey:dataLength"
        /\ out.site = "decryptKey:RSA_private_decrypt"
               => /\ Len(args.buf) >= ENCR_MARKER_SIZE + m
                  /\ out.maxRead = ENCR_MARKER_SIZE + m

\* an envelope cut inside its IV, with the matching key: the wrapped key
\* decrypts and readIv rejects the rest
C4_Witness ==
    /\ C4_Case
    /\ args.variant = "cut iv"
    /\ args.key = HeldPriv
    /\ out.site = "readIv"

\* C5: once the symmetric decryption succeeded, a plaintext is returned only
\* if the payload has at least 3 bytes and starts with "MSG", and it is the
\* payload without those 3 bytes; otherwise the call fails at the tag check;
\* in no case is a byte beyond the payload inspected.
C5_TagGate ==
    (IsDec /\ out.totalLength >= 0) =>
        /\ ~out.overread
        /\ out.ok => /\ out.totalLength >= Len(MSG_RECOGNIZE_TAG)
                     /\ out.tagRead = MSG_RECOGNIZE_TAG
                     /\ Len(out.data) = out.totalLength - Len(MSG_RECOGNIZE_TAG)
        /\ ~out.ok => /\ out.site \in AuthSites
                      /\ out.data = <<>>

\* what the code does keep of C5: a payload of 3 bytes or more is gated by
\* the tag, and a shorter one is still rejected
TagGateAsBuilt ==
    (IsDec /\ out.totalLength >= 0) =>
        /\ out.overread <=> out.totalLength < Len(MSG_RECOGNIZE_TAG)
        /\ out.ok <=> (out.totalLength >= Len(MSG_RECOGNIZE_TAG)
                       /\ out.tagRead = MSG_RECOGNIZE_TAG)
        /\ ~out.ok => (out.site \in AuthSites /\ out.data = <<>>)

\* C6: a verification that could not be performed is reported as an error,
\* so that it differs from the normal results true and false.
C6_ThreeOutcomes ==
    (IsVerify /\ ~out.crashed) => (out.ok <=> out.result)

\* C7: signing with a valid private key gives a signature that verifies as
\* true under the matching public key and the same message, as false for
\* another message, and as false under a public key of another pair.
C7_SignatureCorrectness ==
    /\ (IsSign /\ args.fault = "none" /\ args.key.hdr = "RSA PRIVATE KEY") => out.ok
    /\ (IsVerify /\ args.fault = "none" /\ args.variant = "intact"
          /\ args.key.hdr = "PUBLIC KEY")
           => (out.value <=> (args.key = HeldPub /\ args.msg = held.data))

\* what holds of the signatures the code does return (keys of 256 bytes)
VerifyOfReturnedSignature ==
    (IsVerify /\ args.fault = "none" /\ args.variant = "intact"
       /\ args.key.hdr = "PUBLIC KEY")
        => (out.value <=> (args.key = HeldPub /\ args.msg = held.data))

\* C8: matchRSAKeys never raises, and returns true exactly when both keys
\* parse and their moduli are equal.
C8_MatchKeys ==
    IsMatch =>
        /\ out.ok
        /\ out.value <=> /\ args.fault = "none"
                         /\ args.pub.hdr = "PUBLIC KEY"
                         /\ args.priv.hdr = "RSA PRIVATE KEY"
                         /\ args.pub.n = args.priv.n

C8_Witness ==
    /\ IsMatch
    /\ args.pub.hdr = "PUBLIC KEY"
    /\ args.priv.hdr = "RSA PRIVATE KEY"
    /\ args.pub.n = args.priv.n
    /\ out.value

\* C9: when the random source, the key parse or a primitive fails, the call
\* reports an error and returns no byte; an envelope is returned only once
\* the ciphertext and the wrapped key have both been produced.
C9_AllOrNothing ==
    IsEnc =>
        /\ (args.fault # "none" \/ args.key.hdr # "PUBLIC KEY") => ~out.ok
        /\ ~out.ok => (out.data = <<>> /\ out.what # "" /\ held = Nothing)
        /\ out.ok =>
              /\ out.made = <<"aesKey", "aesIv", "encryptedMsg", "encryptedKey">>
              /\ Len(out.data) >= ENCR_MARKER_SIZE + (args.key.bits \div 8)
                                    + AES_256_IV_LENGTH_BYTES + AES_BLOCK_SIZE
              /\ held.bytes = out.data

\* the last step fails: the ciphertext exists, the wrapped key does not
C9_Witness ==
    /\ IsEnc
    /\ ~out.ok
    /\ out.made = <<"aesKey", "aesIv", "encryptedMsg">>
    /\ out.data = <<>>

\* the case of C10: an unchanged envelope, a private key of another pair
C10_Case ==
    /\ IsDec
    /\ args.variant = "intact"
    /\ args.fault = "none"
    /\ args.key.hdr = "RSA PRIVATE KEY"
    /\ args.key.n # held.n

\* C10 as stated: the call fails at the RSA decryption of the wrapped key
\* (CryptoError) and returns nothing.
C10_CrossKey ==
    C10_Case => /\ ~out.ok
                /\ out.data = <<>>
                /\ out.site = "decryptKey:RSA_private_decrypt"

\* C10 amended: the call fails in decryptKey, before any AES step, and
\* returns nothing: at the RSA decryption of the wrapped key (CryptoError)
\* when the envelope holds at least B's modulus length after the marker,
\* and at decryptKey's length check when it is shorter.
C10_CrossKeyAmended ==
    C10_Case =>
        /\ ~out.ok
        /\ out.data = <<>>
        /\ ~InTrace("readIv")
        /\ ~InTrace("EVP_DecryptInit_ex")
        /\ out.site = IF Len(args.buf) - ENCR_MARKER_SIZE < args.key.bits \div 8
                      THEN "decryptKey:dataLength"
                      ELSE "decryptKey:RSA_private_decrypt"

C10_Witness ==
    /\ C10_Case
    /\ args.key.bits = held.bits
    /\ ~out.ok
    /\ out.site = "decryptKey:RSA_private_decrypt"
    /\ InTrace("RSA_private_decrypt")

\* C11: for every valid private key, of any modulus size, signMessage
\* succeeds and returns a signature exactly as long as the key's modulus.
C11_SignatureLength ==
    (IsSign /\ args.fault = "none" /\ args.key.hdr = "RSA PRIVATE KEY")
        => (out.ok /\ Len(out.data) = args.key.bits \div 8)

\* what the code does: it returns a signature exactly for the keys whose
\* modulus is RSA_SIGNATURE_LENGTH bytes long
SignatureLengthAsBuilt ==
    (IsSign /\ args.fault = "none" /\ args.key.hdr = "RSA PRIVATE KEY")
        => /\ out.ok <=> (args.key.bits \div 8 = RSA_SIGNATURE_LENGTH)
           /\ out.ok => Len(out.data) = RSA_SIGNATURE_LENGTH

\* C12: generateKeysPair is atomic: on success the caller has a complete
\* public/private pair of one modulus; on failure the caller's output
\* strings are as they were and no call was made on an object that was
\* never created.
C12_AtomicGeneration ==
    (IsGen /\ ~out.crashed) =>
        /\ out.ok => /\ out.publicRsaKey.hdr = "PUBLIC KEY"
                     /\ out.privateRsaKey.hdr = "RSA PRIVATE KEY"
                     /\ out.publicRsaKey.n = out.privateRsaKey.n
        /\ ~out.ok => /\ out.publicRsaKey = args.pub
                      /\ out.privateRsaKey = args.priv
                      /\ out.onNull = <<>>

\* what the code does keep: a reported success is a complete pair, and a
\* reported failure never leaves a complete private key
GenerationAsBuilt ==
    (IsGen /\ ~out.crashed) =>
        /\ out.ok => /\ out.publicRsaKey.hdr = "PUBLIC KEY"
                     /\ out.privateRsaKey.hdr = "RSA PRIVATE KEY"
                     /\ out.publicRsaKey.n = out.privateRsaKey.n
        /\ ~out.ok => out.privateRsaKey.hdr # "RSA PRIVATE KEY"

\* the checks of makebet in the order the claim gives them, for a call
\* that gives a reward_mult_ratio and for one that does not
ChecksWithMult == <<"number", "amount", "power of 2", "minimum reward", "funds", "reward">>
ChecksWithoutMult == <<"number", "amount", "funds", "reward">>
ChecksOf(params) == IF params.hasMult THEN ChecksWithMult ELSE ChecksWithoutMult

\* the checks a call passed: its trace without the signing and sending
Passed(trace) == SelectSeq(trace, LAMBDA c : c \notin {"signTx", "sendTx"})

\* the parameters are what the validations demand
ValidBet(params) ==
    /\ params.betNumber >= 0 /\ params.betNumber < MAX_BET_REWARD
    /\ params.betAmount > 0
    /\ params.hasMult =>
          /\ IsPowerOf2(params.rewardMult)
          /\ params.rewardMult >= maskToReward(getMask(params.betNumber))
    /\ maskToReward(IF params.hasMult THEN getMask(params.rewardMult - 1)
                    ELSE getMask(params.betNumber)) <= MAX_BET_REWARD

\* C13: makebet signs and sends a transaction only after every validation
\* has passed, in this order: bet number in [0, MAX_BET_REWARD), amount
\* strictly between 0 and the limit, reward_mult_ratio (when given) a
\* positive power of two and not below the minimum reward of the number,
\* funds found, reward not above MAX_BET_REWARD; when a check fails an
\* error is raised and nothing is signed or sent.
C13_ValidateThenSign ==
    IsBet =>
        LET checks == ChecksOf(args.params)
            passed == Passed(out.trace) IN
        /\ Len(passed) <= Len(checks) /\ passed = Take(checks, Len(passed))
        /\ out.signed => (passed = checks /\ ValidBet(args.params))
        /\ out.sent => out.signed
        /\ out.signed => out.trace = passed \o (IF out.sent THEN <<"signTx", "sendTx">>
                                                ELSE <<"signTx">>)
        /\ passed # checks => (~out.ok /\ ~out.signed /\ ~out.sent)

\* a bet with a reward_mult_ratio has been signed and sent
C13_Witness ==
    /\ IsBet
    /\ out.ok /\ out.signed /\ out.sent
    /\ args.params.hasMult
    /\ args.params.rewardMult > maskToReward(getMask(args.params.betNumber))

\* C16: the cached change address is written at most once, by the first
\* makebet call that reaches the change computation while the cache is
\* empty; every later call, failed or not and whichever wallet is active,
\* uses that first-derived address unchanged.
C16_CacheWrittenOnce ==
    /\ Len(derived) <= 1
    /\ changeAddress = (IF derived = <<>> THEN EmptyAddress ELSE derived[1])
    /\ IsBet =>
          /\ out.derivedNow => (args.cache = EmptyAddress /\ "funds" \in Range(out.trace))
          /\ args.cache # EmptyAddress => out.cache = args.cache
          /\ out.used # EmptyAddress => out.used = derived[1]

\* a bet made after the active wallet changed went out with the address
\* derived from the first wallet
C16_Witness ==
    /\ IsBet
    /\ out.ok /\ ~out.derivedNow
    /\ args.wallet # out.used.wallet
    /\ out.used = derived[1]

\* the buffer has k consecutive bytes equal to key somewhere
Contains(buffer, key) ==
    \E i \in 0..(Len(buffer) - Len(key)) : SubSeq(buffer, i + 1, i + Len(key)) = key

SessionKeyOnlyWrapped ==
    (IsEnc /\ out.ok) => ~Contains(out.data, held.rnd.key)

\* how often o occurs in the sequence s
Count(o, s) == Cardinality({i \in 1..Len(s) : s[i] = o})

\* C15: every key object and key buffer a call acquires is released
\* exactly once before the call returns, on success and on every early
\* failure: after any call nothing remains allocated and nothing was
\* released twice.
C15_ReleasedExactlyOnce ==
    \A o \in Range(mem.acquired) \cup Range(mem.released) :
        Count(o, mem.acquired) = 1 /\ Count(o, mem.released) = 1

\* what the code does keep: nothing is released twice, and nothing is
\* released that was not acquired
ReleasedAtMostOnce ==
    \A o \in Range(mem.released) :
        Count(o, mem.acquired) = 1 /\ Count(o, mem.released) = 1

====
